---- MODULE Spec2Model ----
(***************************************************************************)
(* Cloud-Storage: one browser session (Dashboard = FileUpload + FileList)  *)
(* talking to the two Supabase backends: the storage bucket 'user-files'   *)
(* (table storage.objects) and the catalog table files, both guarded by    *)
(* the row-level policies of the migration.                                *)
(*                                                                         *)
(* Every backend call is a request issued by a handler and executed by the *)
(* backend in the same step under the session's identity at that moment;   *)
(* the handler resumes from its await in a later step.  Handlers therefore *)
(* interleave at their awaits, and the identity of the supabase client     *)
(* (auth) may change while a handler is suspended.                         *)
(***************************************************************************)
EXTENDS Integers, Sequences, FiniteSets, TLC

\* ------------------------------------------------------------------ bounds
MaxUploads == 2
MaxRefresh == 2
MaxPendingDeletes == 1
MaxPendingLoads == 1
MaxTime == 1
MaxAuth == 2
MaxOverlappingLoads == 2

\* --------------------------------------------------------------- constants
MaxFileSize == 50 * 1024 * 1024
DefaultMimeType == "application/octet-stream"
SizeMessage == "File size must be less than 50MB"
\* What the catch blocks show: the message of the thrown error, or the
\* handler's own text when the thrown value is no Error.  The model keeps the
\* handler's text for both; no backend error has an empty message.
UploadMessage == "Failed to upload file"
LoadMessage == "Failed to load files"
DeleteAlert == "Failed to delete file"
DownloadAlert == "Failed to download file"

None == "none"
\* null for a File, an object name and a row
NoFile == [name |-> << >>, size |-> 0, type |-> ""]
NoPath == [owner |-> None, name |-> << >>]
NoRow ==
  [id |-> -1, user_id |-> None, filename |-> << >>, file_path |-> NoPath,
   file_size |-> 0, mime_type |-> "", created_at |-> 0]
Users == {"A", "B"}
\* The values of `${Date.now()}-${Math.random().toString(36).substring(7)}`:
\* two uploads get the same one when they start in the same millisecond and
\* draw the same random suffix.
Tokens == {0, 1}

\* The files a user can pick in the file dialog.  A name is the sequence of
\* its '.'-separated segments ("a.txt" is <<"a", "txt">>).
FileChoices ==
  { [name |-> <<"a", "txt">>, size |-> MaxFileSize, type |-> ""],
    [name |-> <<"b">>, size |-> MaxFileSize + 1, type |-> "text/plain"] }

VARIABLES
  files,          \* catalog table files: set of rows
  objects,        \* storage.objects of bucket 'user-files': set of [name, body]
  now,            \* the database clock, as last read by now()
  auth,           \* identity of the supabase client's session (auth.uid())
  user,           \* user as the components see it through useAuth()
  nAuth,          \* sign-outs and sign-ins so far
  selectedFile,   \* FileUpload state
  uploading,      \* FileUpload state
  upError,        \* FileUpload state error
  up,             \* the handleUpload invocation in progress
  nUploads,       \* handleUpload invocations that passed the guard
  listFiles,      \* FileList state files
  loading,        \* FileList state
  listError,      \* FileList state error
  loads,          \* loadFiles invocations awaiting their response, oldest first
  refreshTrigger, \* Dashboard state
  dels,           \* handleDelete invocations in progress, oldest first
  dl,             \* the handleDownload invocation in progress
  dbDeleteFailed  \* some catalog delete has failed so far

vars == << files, objects, now, auth, user, nAuth, selectedFile, uploading,
           upError, up, nUploads, listFiles, loading, listError, loads,
           refreshTrigger, dels, dl, dbDeleteFailed >>

backendVars == << files, objects, now, dbDeleteFailed >>
authVars == << auth, user, nAuth >>
uploadVars == << selectedFile, uploading, upError, up, nUploads >>
listVars == << listFiles, loading, listError, loads, refreshTrigger >>

\* ------------------------------------------------------- row-level policies
\* "Users can view own files" ON files FOR SELECT TO authenticated
FilesSelectPolicy(uid, row) == uid # None /\ uid = row.user_id

\* "Users can insert own files" ON files FOR INSERT TO authenticated
FilesInsertPolicy(uid, row) == uid # None /\ uid = row.user_id

\* a DELETE policy on files that lets every caller delete every row
FilesDeletePolicyOpen(uid, row) == TRUE

\* "Users can delete own files" ON files FOR DELETE TO authenticated
FilesDeletePolicy(uid, row) == uid # None /\ uid = row.user_id

\* (storage.foldername(name))[1]: the first path segment of an object name
foldername1(name) == name.owner

\* "Users can upload own files" ON storage.objects FOR INSERT
ObjectsInsertPolicy(uid, name) == uid # None /\ foldername1(name) = uid

\* "Users can view own files" ON storage.objects FOR SELECT
ObjectsSelectPolicy(uid, name) == uid # None /\ foldername1(name) = uid

\* "Users can delete own files" ON storage.objects FOR DELETE
ObjectsDeletePolicy(uid, name) == uid # None /\ foldername1(name) = uid

\* ------------------------------------------------------------ backend calls
\* Each is executed as uid, the session's identity when the call is issued;
\* fault is a failure of the backend or of the network.
HasObjectIn(objs, name) == \E o \in objs : o.name = name

HasObject(name) == HasObjectIn(objects, name)

\* storage.from('user-files').upload(filePath, file, {upsert: false})
StorageUploadError(uid, name, fault) ==
  fault \/ ~ObjectsInsertPolicy(uid, name) \/ HasObject(name)

StorageUpload(uid, name, body, fault) ==
  IF StorageUploadError(uid, name, fault)
  THEN objects
  ELSE objects \cup {[name |-> name, body |-> body]}

\* storage.from('user-files').remove([name]): objects the caller may not
\* delete, and names that do not exist, are skipped without an error.
StorageRemoved(uid, name, fault) ==
  IF fault THEN {}
  ELSE {o \in objects : o.name = name /\ ObjectsDeletePolicy(uid, o.name)}

\* storage.from('user-files').download(name)
StorageDownloadError(uid, name, fault) ==
  fault \/ ~ObjectsSelectPolicy(uid, name) \/ ~HasObject(name)

\* from('files').insert(row)
FilesInsertError(uid, row, fault) == fault \/ ~FilesInsertPolicy(uid, row)

\* from('files').delete().eq('id', id): rows the caller may not delete are
\* skipped without an error.
FilesDeleted(uid, id, fault) ==
  IF fault THEN {}
  ELSE {r \in files : r.id = id /\ FilesDeletePolicy(uid, r)}

\* a list query without the .eq filter
loadFilesQueryUnfiltered(uid, rows) == rows

\* .eq('user_id', user.id) of loadFiles
loadFilesQuery(uid, rows) == {r \in rows : r.user_id = uid}

\* from('files').select('*').eq('user_id', uid) executed as a
FilesSelected(a, uid) ==
  loadFilesQuery(uid, {r \in files : FilesSelectPolicy(a, r)})

Perms(S) ==
  {f \in [1..Cardinality(S) -> S] :
     \A i, j \in 1..Cardinality(S) : i # j => f[i] # f[j]}

\* .order('created_at', {ascending: false}): rows of equal created_at come
\* in an order the database chooses.
OrderedByCreatedAt(S) ==
  {f \in Perms(S) :
     \A i \in 1..(Cardinality(S) - 1) : f[i].created_at >= f[i + 1].created_at}

\* The times now() can return: the clock does not run backwards.
Clock == {t \in now..(now + 1) : t <= MaxTime}

Range(s) == {s[i] : i \in DOMAIN s}

RemoveAt(s, i) == SubSeq(s, 1, i - 1) \o SubSeq(s, i + 1, Len(s))

\* ----------------------------------------------------------------- helpers
\* selectedFile.name.split('.').pop()
fileExt(name) == name[Len(name)]

\* `${user.id}/${Date.now()}-${random}.${fileExt}`
filePathOf(u, token, name) ==
  [owner |-> u, name |-> << token, fileExt(name) >>]

\* selectedFile.type || 'application/octet-stream'
mimeTypeOf(f) == IF f.type = "" THEN DefaultMimeType ELSE f.type

\* no handleUpload invocation in progress
IdleUp ==
  [pc |-> "idle", user |-> None, file |-> NoFile, filePath |-> NoPath,
   row |-> NoRow, err |-> FALSE]

\* no handleDownload invocation in progress
IdleDl == [pc |-> "idle", file |-> NoRow, shown |-> ""]

\* id uuid DEFAULT gen_random_uuid(): an id no row has had before.  At most
\* one handleUpload runs at a time and each inserts at most once, so the
\* number of the running invocation is fresh.
newId == nUploads

\* alert() is modal: while a handler shows it, no other script runs.
AlertShown == dl.pc = "alert" \/ \E i \in DOMAIN dels : dels[i].pc = "alert"

\* A file another user uploaded before this session began
EarlierFile == [name |-> <<"a", "txt">>, size |-> MaxFileSize, type |-> ""]

EarlierRow ==
  [id |-> 0, user_id |-> "B", filename |-> EarlierFile.name,
   file_path |-> filePathOf("B", 0, EarlierFile.name),
   file_size |-> EarlierFile.size, mime_type |-> mimeTypeOf(EarlierFile),
   created_at |-> 0]

\* -------------------------------------------------------------------- Init
\* The Dashboard has just been mounted for the signed-in user A: the mount
\* effect's loadFiles has issued its query.  A has no files yet; another
\* user may have one.
Init ==
  /\ \E earlier \in BOOLEAN :
       /\ files = (IF earlier THEN {EarlierRow} ELSE {})
       /\ objects = (IF earlier
                     THEN {[name |-> EarlierRow.file_path, body |-> EarlierFile]}
                     ELSE {})
  /\ now = 0
  /\ dbDeleteFailed = FALSE
  /\ auth = "A"
  /\ user = "A"
  /\ nAuth = 0
  /\ selectedFile = NoFile
  /\ uploading = FALSE
  /\ upError = ""
  /\ up = IdleUp
  /\ nUploads = 0
  /\ listFiles = << >>
  /\ loading = TRUE
  /\ listError = ""
  /\ refreshTrigger = 0
  /\ dels = << >>
  /\ dl = IdleDl
  /\ \E fault \in BOOLEAN :
       loads = << [uid |-> "A", error |-> fault, data |-> << >>] >>

\* --------------------------------------------------------------- identity
\* The identity provider signs a user in: the supabase client's session
\* changes at once, the components learn of it with AuthStateChange.
SignIn(u) ==
  /\ ~AlertShown
  /\ auth = None
  /\ nAuth < MaxAuth
  /\ auth' = u
  /\ nAuth' = nAuth + 1
  /\ UNCHANGED << user, dels, dl >>
  /\ UNCHANGED << backendVars, uploadVars, listVars >>

\* Dashboard: the Sign Out button
signOut ==
  /\ ~AlertShown
  /\ auth # None
  /\ nAuth < MaxAuth
  /\ auth' = None
  /\ nAuth' = nAuth + 1
  /\ UNCHANGED << user, dels, dl >>
  /\ UNCHANGED << backendVars, uploadVars, listVars >>

\* useAuth() delivers the session's identity to the components
AuthStateChange ==
  /\ ~AlertShown
  /\ user # auth
  /\ user' = auth
  /\ UNCHANGED << auth, nAuth, dels, dl >>
  /\ UNCHANGED << backendVars, uploadVars, listVars >>

\* --------------------------------------------------------------- loadFiles
CanLoadUpTo(n) == user = None \/ Len(loads) < n

CanLoad == CanLoadUpTo(MaxPendingLoads)

\* loadFiles up to its await: the query is issued and executed.  It runs in
\* the effect of FileList after every change of refreshTrigger, so it is part
\* of each step that changes refreshTrigger.
loadFiles ==
  IF user = None
  THEN UNCHANGED << loading, loads >>
  ELSE /\ loading' = TRUE
       /\ \E fault \in BOOLEAN :
            \E data \in (IF fault THEN {<< >>}
                         ELSE OrderedByCreatedAt(FilesSelected(auth, user))) :
              loads' = Append(loads, [uid |-> user, error |-> fault,
                                      data |-> data])

\* loadFiles from its await to its end, for the i-th pending response
loadFilesDone(i) ==
  /\ ~AlertShown
  /\ i \in DOMAIN loads
  /\ loads' = RemoveAt(loads, i)
  /\ IF loads[i].error
     THEN listError' = LoadMessage /\ UNCHANGED listFiles
     ELSE listFiles' = loads[i].data /\ UNCHANGED listError
  /\ loading' = FALSE
  /\ UNCHANGED << refreshTrigger, dels, dl >>
  /\ UNCHANGED << backendVars, authVars, uploadVars >>

\* -------------------------------------------------------------- FileUpload
\* a size check that also rejects a file of exactly the maximum size
tooLargeInclusive(file) == file.size >= MaxFileSize

\* if (file.size > 50 * 1024 * 1024)
tooLarge(file) == file.size > MaxFileSize

handleFileSelect(f) ==
  /\ ~AlertShown
  /\ f \in FileChoices
  /\ IF tooLarge(f)
     THEN upError' = SizeMessage /\ UNCHANGED selectedFile
     ELSE selectedFile' = f /\ upError' = ""
  /\ UNCHANGED << uploading, up, nUploads, dels, dl >>
  /\ UNCHANGED << backendVars, authVars, listVars >>

clearSelection ==
  /\ ~AlertShown
  /\ selectedFile # NoFile
  /\ selectedFile' = NoFile
  /\ upError' = ""
  /\ UNCHANGED << uploading, up, nUploads, dels, dl >>
  /\ UNCHANGED << backendVars, authVars, listVars >>

\* a handler that goes on after a failed storage upload
uploadThrowsNever(uploadError) == FALSE

\* if (uploadError) throw uploadError
uploadThrows(uploadError) == uploadError

\* a handler that goes on after a failed insert
insertThrowsNever(dbError) == FALSE

\* if (dbError) throw dbError
insertThrows(dbError) == dbError

\* handleUpload from the click to the await of the storage upload
handleUpload ==
  /\ ~AlertShown
  /\ selectedFile # NoFile
  /\ ~uploading
  /\ user # None
  /\ nUploads < MaxUploads
  /\ nUploads' = nUploads + 1
  /\ uploading' = TRUE
  /\ upError' = ""
  /\ \E token \in Tokens, fault \in BOOLEAN :
       LET filePath == filePathOf(user, token, selectedFile.name) IN
         /\ objects' = StorageUpload(auth, filePath, selectedFile, fault)
         /\ up' = [pc |-> "upload", user |-> user, file |-> selectedFile,
                   filePath |-> filePath, row |-> NoRow,
                   err |-> StorageUploadError(auth, filePath, fault)]
  /\ UNCHANGED << files, now, dbDeleteFailed, selectedFile, dels, dl >>
  /\ UNCHANGED << authVars, listVars >>

\* handleUpload from the storage upload's response to the await of the
\* insert, or to its end when the upload failed
handleUploadAfterUpload ==
  /\ ~AlertShown
  /\ up.pc = "upload"
  /\ IF uploadThrows(up.err)
     THEN /\ upError' = UploadMessage
          /\ uploading' = FALSE
          /\ up' = IdleUp
          /\ UNCHANGED << files, now >>
     ELSE /\ \E fault \in BOOLEAN, t \in Clock :
               LET row == [id |-> newId, user_id |-> up.user,
                           filename |-> up.file.name,
                           file_path |-> up.filePath,
                           file_size |-> up.file.size,
                           mime_type |-> mimeTypeOf(up.file),
                           created_at |-> t] IN
                 /\ files' = IF FilesInsertError(auth, row, fault)
                             THEN files ELSE files \cup {row}
                 /\ up' = [up EXCEPT !.pc = "insert", !.row = row,
                                     !.err = FilesInsertError(auth, row, fault)]
                 /\ now' = t
          /\ UNCHANGED << upError, uploading >>
  /\ UNCHANGED << objects, dbDeleteFailed, selectedFile, nUploads, dels,
                  dl >>
  /\ UNCHANGED << authVars, listVars >>

\* handleUpload from the insert's response to its end
handleUploadAfterInsertUpTo(n) ==
  /\ ~AlertShown
  /\ up.pc = "insert"
  /\ IF insertThrows(up.err)
     THEN /\ upError' = UploadMessage
          /\ UNCHANGED << selectedFile, refreshTrigger, loading, loads >>
     ELSE /\ CanLoadUpTo(n)
          /\ selectedFile' = NoFile
          /\ refreshTrigger' = refreshTrigger + 1
          /\ loadFiles
          /\ UNCHANGED upError
  /\ uploading' = FALSE
  /\ up' = IdleUp
  /\ UNCHANGED << nUploads, listFiles, listError, dels, dl >>
  /\ UNCHANGED << backendVars, authVars >>

handleUploadAfterInsert == handleUploadAfterInsertUpTo(MaxPendingLoads)

\* ---------------------------------------------------------------- FileList
\* The rows with their Download and Delete buttons are rendered only when
\* the component shows neither the loading skeleton nor the error box.
Rendered == ~loading /\ listError = ""

\* a handler that goes on after a failed storage remove
storageRemoveThrowsNever(storageError) == FALSE

\* if (storageError) throw storageError
storageRemoveThrows(storageError) == storageError

\* a handler that goes on after a failed catalog delete
dbDeleteThrowsNever(dbError) == FALSE

\* if (dbError) throw dbError
dbDeleteThrows(dbError) == dbError

\* handleDelete from the click (confirmed) to the await of the storage
\* remove.  found, dangling and owned record what held for the call: a row of
\* that id owned by the acting identity existed, that row's object was
\* already missing, the backend calls ran as the row's owner.  failedStep
\* and shown are the await that threw and the text of the alert.
handleDelete(file) ==
  /\ ~AlertShown
  /\ Rendered
  /\ file \in Range(listFiles)
  /\ refreshTrigger < MaxRefresh
  /\ Len(dels) < MaxPendingDeletes
  /\ \E fault \in BOOLEAN :
       /\ objects' = objects \ StorageRemoved(auth, file.file_path, fault)
       /\ dels' = Append(dels,
            [file |-> file, pc |-> "remove", err |-> fault,
             failedStep |-> "none", shown |-> "",
             found |-> \E r \in files : r.id = file.id /\ r.user_id = auth,
             dangling |-> file \in files /\ ~HasObject(file.file_path),
             owned |-> (auth = file.user_id)])
  /\ UNCHANGED << files, now, dbDeleteFailed, dl >>
  /\ UNCHANGED << authVars, uploadVars, listVars >>

\* handleDelete from the storage remove's response to the await of the
\* catalog delete, or to the alert when the remove failed
handleDeleteAfterRemove(i) ==
  /\ ~AlertShown
  /\ i \in DOMAIN dels
  /\ dels[i].pc = "remove"
  /\ IF storageRemoveThrows(dels[i].err)
     THEN /\ dels' = [dels EXCEPT ![i].pc = "alert",
                                  ![i].failedStep = "storage",
                                  ![i].shown = DeleteAlert]
          /\ UNCHANGED << files, dbDeleteFailed >>
     ELSE \E fault \in BOOLEAN :
            /\ files' = files \ FilesDeleted(auth, dels[i].file.id, fault)
            /\ dbDeleteFailed' = (dbDeleteFailed \/ fault)
            /\ dels' = [dels EXCEPT
                          ![i].pc = "delete", ![i].err = fault,
                          ![i].owned = (@ /\ auth = dels[i].file.user_id)]
  /\ UNCHANGED << objects, now, dl >>
  /\ UNCHANGED << authVars, uploadVars, listVars >>

\* handleDelete from the catalog delete's response to onRefresh(), or to the
\* alert when the delete failed
handleDeleteAfterDelete(i) ==
  /\ ~AlertShown
  /\ i \in DOMAIN dels
  /\ dels[i].pc = "delete"
  /\ IF dbDeleteThrows(dels[i].err)
     THEN /\ dels' = [dels EXCEPT ![i].pc = "alert", ![i].failedStep = "db",
                                  ![i].shown = DeleteAlert]
          /\ UNCHANGED << refreshTrigger, loading, loads >>
     ELSE /\ CanLoad
          /\ dels' = RemoveAt(dels, i)
          /\ refreshTrigger' = refreshTrigger + 1
          /\ loadFiles
  /\ UNCHANGED << listFiles, listError, dl >>
  /\ UNCHANGED << backendVars, authVars, uploadVars >>

\* alert('Failed to delete file') is dismissed and handleDelete ends
dismissAlert(i) ==
  /\ i \in DOMAIN dels
  /\ dels[i].pc = "alert"
  /\ dels' = RemoveAt(dels, i)
  /\ UNCHANGED dl
  /\ UNCHANGED << backendVars, authVars, uploadVars, listVars >>

\* handleDownload from the click to its end: the blob is saved under
\* file.filename, or alert('Failed to download file') is shown.  Between its
\* await and its end the handler reads and writes nothing the other handlers
\* see, so the two halves are one step.
handleDownload(file) ==
  /\ ~AlertShown
  /\ Rendered
  /\ file \in Range(listFiles)
  /\ \E fault \in BOOLEAN :
       dl' = IF StorageDownloadError(auth, file.file_path, fault)
             THEN [pc |-> "alert", file |-> file, shown |-> DownloadAlert]
             ELSE IdleDl
  /\ UNCHANGED dels
  /\ UNCHANGED << backendVars, authVars, uploadVars, listVars >>

\* alert('Failed to download file') is dismissed and handleDownload ends
dismissDownloadAlert ==
  /\ dl.pc = "alert"
  /\ dl' = IdleDl
  /\ UNCHANGED dels
  /\ UNCHANGED << backendVars, authVars, uploadVars, listVars >>

Next ==
  \/ \E u \in Users : SignIn(u)
  \/ signOut
  \/ AuthStateChange
  \/ \E i \in DOMAIN loads : loadFilesDone(i)
  \/ \E f \in FileChoices : handleFileSelect(f)
  \/ clearSelection
  \/ handleUpload
  \/ handleUploadAfterUpload
  \/ handleUploadAfterInsert
  \/ \E f \in Range(listFiles) : handleDelete(f)
  \/ \E i \in DOMAIN dels : handleDeleteAfterRemove(i)
  \/ \E i \in DOMAIN dels : handleDeleteAfterDelete(i)
  \/ \E i \in DOMAIN dels : dismissAlert(i)
  \/ \E f \in Range(listFiles) : handleDownload(f)
  \/ dismissDownloadAlert

Spec == Init /\ [][Next]_vars

\* The session of a user who only uploads, with a refresh allowed to start
\* its load while earlier loads are still awaiting their responses.
NextLoads ==
  \/ \E i \in DOMAIN loads : loadFilesDone(i)
  \/ \E f \in FileChoices : handleFileSelect(f)
  \/ handleUpload
  \/ handleUploadAfterUpload
  \/ handleUploadAfterInsertUpTo(MaxOverlappingLoads)

SpecLoads == Init /\ [][NextLoads]_vars

\* The Dashboard is mounted while the session of A is being restored: the
\* components still see no user, so the mount effect's loadFiles has returned
\* at its first line and loading keeps its initial value.
InitUnresolved ==
  /\ \E earlier \in BOOLEAN :
       /\ files = (IF earlier THEN {EarlierRow} ELSE {})
       /\ objects = (IF earlier
                     THEN {[name |-> EarlierRow.file_path, body |-> EarlierFile]}
                     ELSE {})
  /\ now = 0
  /\ dbDeleteFailed = FALSE
  /\ auth = "A"
  /\ user = None
  /\ nAuth = 0
  /\ selectedFile = NoFile
  /\ uploading = FALSE
  /\ upError = ""
  /\ up = IdleUp
  /\ nUploads = 0
  /\ listFiles = << >>
  /\ loading = TRUE
  /\ listError = ""
  /\ refreshTrigger = 0
  /\ dels = << >>
  /\ dl = IdleDl
  /\ loads = << >>

\* That session, of a user who only uploads
NextUnresolved ==
  \/ AuthStateChange
  \/ \E i \in DOMAIN loads : loadFilesDone(i)
  \/ \E f \in FileChoices : handleFileSelect(f)
  \/ handleUpload
  \/ handleUploadAfterUpload
  \/ handleUploadAfterInsert

\* Every response arrives and is handled, and the user becomes known to the
\* components; what the person at the screen does is up to them.
SpecUnresolved ==
  /\ InitUnresolved
  /\ [][NextUnresolved]_vars
  /\ WF_vars(AuthStateChange)
  /\ WF_vars(\E i \in DOMAIN loads : loadFilesDone(i))
  /\ WF_vars(handleUploadAfterUpload)
  /\ WF_vars(handleUploadAfterInsert)

\* ================================================================== claims
\* A step in which a handleDelete issues its storage remove for key
RemoveIssued(key) ==
  /\ Len(dels') = Len(dels) + 1
  /\ dels'[Len(dels')].pc = "remove"
  /\ dels'[Len(dels')].file.file_path = key

\* A step in which the i-th handleDelete in progress resumes from an await
Stepped(i) ==
  /\ i \in DOMAIN dels
  /\ \/ Len(dels') = Len(dels) /\ dels'[i] # dels[i]
     \/ dels' = RemoveAt(dels, i)

\* C1: when the catalog insert of an upload fails after its blob was written,
\* the handler issues a storage remove of the key it wrote before it ends.
C1_CompensatingDelete ==
  [][ (up.pc = "insert" /\ up.err /\ up' # up)
        => RemoveIssued(up.filePath) ]_vars

\* C2 as stated: as long as no catalog delete has failed, every catalog row's
\* file_path names a blob that exists.
C2_ReferentialValidity ==
  ~dbDeleteFailed => \A r \in files : HasObject(r.file_path)

\* C2: a row enters the catalog only from an upload whose blob write at the
\* row's file_path has succeeded, and a blob leaves storage only in the
\* storage-remove step of a delete of a file with that file_path; a row that
\* points at a missing blob is therefore always the trace of such a remove.
C2_RowsDangleOnlyByDelete ==
  [][ /\ \A r \in files' \ files :
           up.pc = "upload" /\ ~up.err /\ r.file_path = up.filePath
      /\ \A o \in objects \ objects' : RemoveIssued(o.name) ]_vars

\* A delete has removed the blob and its catalog delete is still to run: the
\* row points at a missing blob although no catalog delete has failed.
C2_Witness ==
  \E i \in DOMAIN dels :
    /\ dels[i].pc = "remove" /\ ~dels[i].err /\ ~dbDeleteFailed
    /\ dels[i].file \in files /\ ~HasObject(dels[i].file.file_path)

\* C3: a failed blob write leaves both backends as they were, the handler
\* ends with 'Failed to upload file' without attempting the catalog insert
\* and without calling onUploadComplete.
C3_UploadFailed ==
  [][ /\ (up.pc = "idle" /\ up'.pc = "upload" /\ up'.err)
          => (objects' = objects /\ files' = files)
      /\ (up.pc = "upload" /\ up.err /\ up' # up)
          => /\ up' = IdleUp
             /\ upError' = UploadMessage
             /\ ~uploading'
             /\ files' = files /\ objects' = objects
             /\ refreshTrigger' = refreshTrigger
             /\ loads' = loads /\ selectedFile' = selectedFile ]_vars

\* The only upload so far has ended in a failed blob write.
C3_Witness ==
  /\ nUploads = 1 /\ up = IdleUp /\ upError = UploadMessage
  /\ \A o \in objects : o.name = EarlierRow.file_path
  /\ \A r \in files : r = EarlierRow

\* C4: a failed catalog insert adds no row, the handler ends with a failure
\* message and never calls onUploadComplete, and what the owner's list query
\* returns is what it returned before.
C4_MetadataCommitFailed ==
  [][ /\ (up.pc = "upload" /\ up'.pc = "insert" /\ up'.err) => files' = files
      /\ (up.pc = "insert" /\ up.err /\ up' # up)
          => /\ up' = IdleUp
             /\ upError' = UploadMessage
             /\ ~uploading'
             /\ refreshTrigger' = refreshTrigger
             /\ loads' = loads /\ selectedFile' = selectedFile
             /\ up.row \notin files'
             /\ \A u \in Users : FilesSelected(u, u)' = FilesSelected(u, u)
    ]_vars

\* An upload has ended with the failure message and the blob it wrote has no
\* catalog row.
C4_Witness ==
  /\ up = IdleUp /\ upError = UploadMessage
  /\ \E o \in objects : \A r \in files : r.file_path # o.name

\* C5: when the storage remove of a delete fails, the blob and the row are
\* left as they were, the catalog delete is not issued, the list is not
\* refreshed and the handler ends in its alert.
C5_StorageRemoveFailed ==
  [][ /\ (Len(dels') = Len(dels) + 1 /\ dels'[Len(dels')].err)
          => (objects' = objects /\ files' = files)
      /\ \A i \in DOMAIN dels :
           (Stepped(i) /\ dels[i].pc = "remove" /\ dels[i].err)
             => /\ files' = files /\ objects' = objects
                /\ dbDeleteFailed' = dbDeleteFailed
                /\ Len(dels') = Len(dels)
                /\ dels'[i].pc = "alert" /\ dels'[i].failedStep = "storage"
                /\ refreshTrigger' = refreshTrigger
                /\ listFiles' = listFiles ]_vars

\* The alert of a delete whose storage remove failed is shown while the row
\* and its blob are both still there.
C5_Witness ==
  \E i \in DOMAIN dels :
    /\ dels[i].pc = "alert" /\ dels[i].failedStep = "storage"
    /\ dels[i].file \in files /\ HasObject(dels[i].file.file_path)

\* C6: what the user is shown when the catalog delete fails after the blob
\* was removed differs from what is shown when the storage remove fails.
C6_PartialDeleteDistinguishable ==
  \A i \in DOMAIN dels :
    (dels[i].pc = "alert" /\ dels[i].failedStep = "db")
      => dels[i].shown # DeleteAlert

\* C7: a delete whose catalog delete failed changes neither the row nor what
\* the list shows; deleting the file again as its owner, with no failure,
\* finds the blob absent without an error, removes the row and ends with
\* onRefresh.
C7_RetryAfterPartialDelete ==
  [][ /\ (Len(dels') = Len(dels) + 1 /\ dels'[Len(dels')].dangling)
          => objects' = objects
      /\ \A i \in DOMAIN dels : Stepped(i) =>
           /\ (dels[i].pc = "remove" /\ Len(dels') = Len(dels)
                 /\ dels'[i].pc = "delete" /\ dels'[i].err)
                => files' = files
           /\ (dels[i].pc = "delete" /\ dels[i].err)
                => /\ files' = files
                   /\ refreshTrigger' = refreshTrigger
                   /\ << listFiles, loading, listError, loads >>'
                        = << listFiles, loading, listError, loads >>
                   /\ Len(dels') = Len(dels)
                   /\ dels'[i].pc = "alert" /\ dels'[i].failedStep = "db"
           /\ (dels[i].pc = "remove" /\ dels[i].dangling /\ ~dels[i].err)
                => /\ Len(dels') = Len(dels)
                   /\ dels'[i].pc = "delete"
                   /\ (dels'[i].owned /\ ~dels'[i].err)
                        => ~\E r \in files' : r.id = dels[i].file.id
           /\ (dels[i].pc = "delete" /\ dels[i].dangling /\ dels[i].owned
                 /\ ~dels[i].err)
                => /\ dels' = RemoveAt(dels, i)
                   /\ refreshTrigger' = refreshTrigger + 1
                   /\ ~\E r \in files' : r.id = dels[i].file.id ]_vars

\* After a catalog delete has failed, a delete of a row whose blob is already
\* missing has removed the row and is about to call onRefresh.
C7_Witness ==
  /\ dbDeleteFailed
  /\ \E i \in DOMAIN dels :
       /\ dels[i].pc = "delete" /\ ~dels[i].err
       /\ dels[i].dangling /\ dels[i].found /\ dels[i].owned
       /\ ~\E r \in files : r.id = dels[i].file.id
       /\ ~HasObject(dels[i].file.file_path)

\* C8: a delete of a file for which the acting identity owns no catalog row
\* never ends in success (onRefresh).
C8_DeleteNotFound ==
  [][ \A i \in DOMAIN dels :
        (Stepped(i) /\ dels[i].pc = "delete" /\ ~dels[i].found)
          => refreshTrigger' = refreshTrigger ]_vars

\* C9: the rows a list query returns for a user are all owned by that user.
C9_ListOnlyOwnRows ==
  \A i \in DOMAIN loads :
    \A r \in Range(loads[i].data) : r.user_id = loads[i].uid

\* A list query has returned rows while the catalog holds a row of another
\* owner.
C9_Witness ==
  \E i \in DOMAIN loads :
    /\ loads[i].data # << >>
    /\ \E r \in files : r.user_id # loads[i].uid

\* C10: whatever a step writes to or removes from either backend belongs to
\* the identity the session has in that step, and a download succeeds only
\* for a blob in that identity's folder.
C10_OwnerIsolation ==
  [][ /\ \A o \in (objects' \ objects) \cup (objects \ objects') :
           foldername1(o.name) = auth
      /\ \A r \in (files' \ files) \cup (files \ files') : r.user_id = auth
      /\ \A u \in Users \cup {None} : \A o \in objects :
           ~StorageDownloadError(u, o.name, FALSE) => foldername1(o.name) = u
    ]_vars

\* A delete issued under another signed-in identity than the row's owner has
\* run both of its backend calls without a failure, and the row and its blob
\* are still there.
C10_Witness ==
  \E i \in DOMAIN dels :
    /\ dels[i].pc = "delete" /\ ~dels[i].err /\ ~dels[i].owned
    /\ auth \in Users /\ auth # dels[i].file.user_id
    /\ dels[i].file \in files /\ HasObject(dels[i].file.file_path)

\* C11: a list query returns its rows by created_at descending, and rows of
\* equal created_at by id descending.
C11_ListOrderDetermined ==
  \A k \in DOMAIN loads :
    \A i, j \in DOMAIN loads[k].data :
      i < j =>
        LET a == loads[k].data[i]
            b == loads[k].data[j]
        IN  \/ a.created_at > b.created_at
            \/ a.created_at = b.created_at /\ a.id > b.id

\* C12: a file of exactly the maximum size can always be selected, a file
\* above it never can: selecting it shows the size message and nothing else
\* happens; a step that shows the size message makes no backend call; and no
\* selection, upload in progress, blob or row is larger than the maximum.
C12_SizeBoundary ==
  /\ [] /\ selectedFile.size <= MaxFileSize
        /\ up.file.size <= MaxFileSize
        /\ \A o \in objects : o.body.size <= MaxFileSize
        /\ \A r \in files : r.file_size <= MaxFileSize
        /\ ~AlertShown =>
             \A f \in FileChoices :
               /\ f.size <= MaxFileSize =>
                    ENABLED (/\ handleFileSelect(f)
                             /\ selectedFile' = f /\ upError' = "")
               /\ f.size > MaxFileSize =>
                    /\ ~ENABLED (handleFileSelect(f) /\ selectedFile' = f)
                    /\ ENABLED (/\ handleFileSelect(f)
                                /\ upError' = SizeMessage
                                /\ UNCHANGED selectedFile)
  /\ [][ (upError' = SizeMessage /\ upError # SizeMessage)
           => UNCHANGED << backendVars, selectedFile, uploading, up,
                           nUploads, loads, dels, dl >> ]_vars

\* A file of exactly the maximum size has been uploaded in this session: its
\* row and its blob are there.
C12_Witness ==
  \E r \in files :
    /\ r.id > 0 /\ r.file_size = MaxFileSize
    /\ \E o \in objects : o.name = r.file_path /\ o.body.size = MaxFileSize

\* C13: an upload whose insert succeeds adds exactly one row, owned by the
\* uploader, with the file's size and a file_path in the owner's folder at
\* which exactly one blob is stored, and the owner's list query returns
\* exactly that one row more; when the handler ends in success the row and
\* its blob are there.
C13_SuccessfulUpload ==
  [][ /\ (up.pc = "upload" /\ up'.pc = "insert" /\ ~up'.err)
          => LET row == up'.row IN
               /\ row \notin files /\ files' = files \cup {row}
               /\ row.user_id = up.user
               /\ row.file_size = up.file.size
               /\ foldername1(row.file_path) = row.user_id
               /\ Cardinality({o \in objects' : o.name = row.file_path}) = 1
               /\ \A u \in Users :
                    u = row.user_id =>
                      FilesSelected(u, u)' = FilesSelected(u, u) \cup {row}
      /\ (up.pc = "insert" /\ ~up.err /\ up' # up)
          => /\ refreshTrigger' = refreshTrigger + 1
             /\ up.row \in files'
             /\ Cardinality({o \in objects' : o.name = up.row.file_path}) = 1
    ]_vars

\* C14: no two catalog rows have the same file_path, and an upload whose key
\* is the key of an existing blob fails at the storage upload, leaves the
\* blobs as they are and inserts no row.
C14_KeyUniqueness ==
  /\ [] \A r1, r2 \in files : r1.file_path = r2.file_path => r1 = r2
  /\ [][ /\ (up.pc = "idle" /\ up'.pc = "upload" /\ HasObject(up'.filePath))
             => (up'.err /\ objects' = objects)
         /\ (up.pc = "upload" /\ up.err /\ up' # up) => files' = files
       ]_vars

\* C15: when a download fails because the file's row exists and its blob is
\* missing, what the user is shown differs from what every other failed
\* download shows.
C15_DanglingReferenceDistinct ==
  (/\ dl.pc = "alert"
   /\ dl.file \in files
   /\ ~HasObject(dl.file.file_path))
    => dl.shown # DownloadAlert

\* C16: a row enters the catalog only as the row of an upload whose storage
\* upload and insert both succeeded; a row leaves it only in the catalog
\* delete of a handleDelete for its id; and a row that stays keeps every
\* field (an id never names two different rows, before or after a step).
C16_RowsImmutable ==
  [][ /\ \A r \in files' \ files :
           /\ up.pc = "upload" /\ ~up.err
           /\ up'.pc = "insert" /\ ~up'.err
           /\ r = up'.row
           /\ files' = files \cup {r}
      /\ \A r \in files \ files' :
           \E i \in DOMAIN dels :
             Stepped(i) /\ dels[i].pc = "remove" /\ dels[i].file.id = r.id
      /\ \A r \in files \cup files', q \in files \cup files' :
           q.id = r.id => q = r ]_vars

\* An upload has inserted its row after its blob was written, next to a row
\* that was there before.
C16_Witness ==
  /\ up.pc = "insert" /\ ~up.err
  /\ up.row \in files /\ HasObject(up.row.file_path)
  /\ \E r \in files : r.id # up.row.id

\* C17: once every load has completed and no upload is running, the list
\* shown is the result of the load started last.  In a session of uploads
\* only in which no load has failed, that load was started after the last
\* change of the catalog, so its result is the user's rows as they are now.
C17_LatestLoadShown ==
  (loads = << >> /\ up.pc = "idle" /\ listError = "")
    => listFiles \in OrderedByCreatedAt(FilesSelected(user, user))

\* C18: when the response of a load that succeeded is handled, the list is
\* rendered: the error message of an earlier failed load is cleared.
C18_LoadErrorCleared ==
  [][ \A i \in DOMAIN loads :
        (~loads[i].error /\ loads' = RemoveAt(loads, i))
          => (listError' = "" /\ ~loading') ]_vars

\* C19: while the size message is shown no file is selected.
C19_NoSelectionWithSizeError ==
  upError = SizeMessage => selectedFile = NoFile

\* C20: loading does not stay true for ever, and uploading does not stay
\* true for ever.
C20_HandlersEnd ==
  /\ loading ~> ~loading
  /\ uploading ~> ~uploading

====
